---- MODULE Spec2Model ----
(***************************************************************************)
(* State-machine model of src/server.js: the in-memory transfer registry   *)
(* (fileStore), the multer disk storage in front of POST /api/upload, and   *)
(* the three request handlers POST /api/upload, GET /download/:id and       *)
(* GET /download-file/:id/:filename.                                        *)
(*                                                                          *)
(* Time is the wall clock in milliseconds.  Strings the code takes apart    *)
(* (original file names) are sequences of one-character strings; strings    *)
(* it only builds are tuples of their parts (a stored name is               *)
(* <<Date.now(), random, extension>>, a path or URL is its segments).       *)
(* A byte count is its base-1024 digits, least significant first, because   *)
(* counts up to 1024^4 do not fit TLC's 32-bit integers.                      *)
(***************************************************************************)
EXTENDS Integers, Sequences, FiniteSets, TLC

VARIABLES
    fileStore,   \* the Map of line 34: download id -> record
    disk,        \* paths of the files multer has written under uploads/
    reqFiles,    \* req.files of the upload request multer is receiving
    now,         \* the wall clock read by Date.now() and new Date()
    res,         \* the response sent by the step just taken
    log,         \* history: the uploads answered with success, in order
    expired,     \* history: the ids on which 410 has been signalled
    fmtBytes,    \* the argument of the formatFileSize call under study
    fmtText      \* its result, "" before the call

vars == <<fileStore, disk, reqFiles, now, res, log, expired, fmtBytes, fmtText>>

----------------------------------------------------------------------------
(* Bounds of the model *)

\* number of distinct values generateDownloadId can return
NumIds == 2
\* number of distinct values Math.round(Math.random() * 1E9) can return
NumRnd == 1
\* most file parts in one upload request
MaxFiles == 2
\* most successful uploads in a run
MaxUploads == 2
\* most single-millisecond advances of the clock in a run
MaxTicks == 1
\* most seven-day advances of the clock in a run
MaxJumps == 1

----------------------------------------------------------------------------
(* Program constants *)

\* 7 * 24 * 60 * 60 * 1000, line 66
RETENTION_MS == 604800000
\* const k = 1024, line 198
k == 1024
\* const sizes = ['Bytes', 'KB', 'MB', 'GB'], line 199
sizes == <<"Bytes", "KB", "MB", "GB">>

----------------------------------------------------------------------------
(* Inputs *)

Ids == 1 .. NumIds
Rnds == 0 .. (NumRnd - 1)

\* the file parts a client sends: an original name and a byte count
Parts ==
    { [originalname |-> <<"r", ".", "t">>, size |-> <<512, 1>>],
      [originalname |-> <<"n">>,           size |-> <<0>>] }

\* the digits a byte count handed to formatFileSize is made of
DigitVals == {0, 1, 512, 1023}

\* the byte counts handed to formatFileSize: five base-1024 digits, from 0 up to
\* 5 * 1024^4 + 1024^4 - 1, all below 2^53 and away from 1024^5, where
\* Math.log(bytes) / Math.log(k) stops being exact enough for Math.floor
Sizes ==
    { <<d0, d1, d2, d3, d4>> :
        d0 \in DigitVals, d1 \in DigitVals, d2 \in DigitVals, d3 \in DigitVals,
        d4 \in {0, 1, 5} }

\* the optional form fields of an upload
Bodies == { [email |-> "x@y", message |-> "hi"] }

----------------------------------------------------------------------------
(* Helpers *)

\* Math.random().toString(36).substring(2, 15) twice: any id at all, lines 192-194
generateDownloadId == Ids

\* position of the last "." of a name, 0 when there is none
LastDot(name) ==
    LET dots == { i \in 1 .. Len(name) : name[i] = "." }
    IN  IF dots = {} THEN 0 ELSE CHOOSE i \in dots : \A j \in dots : j <= i

\* path.extname of a name without directory separators
extname(name) ==
    LET d == LastDot(name)
    IN  IF d <= 1 \/ name = <<".", ".">>
        THEN <<>>
        ELSE SubSeq(name, d, Len(name))

\* storage.filename, lines 22-25
uniqueName(t, rnd, originalname) == <<t, rnd, extname(originalname)>>

\* multer's file.path: the destination of lines 15-21 joined with the filename
uploadPath(filename) == <<"uploads", filename>>

\* index of the most significant non-zero base-1024 digit, 0 for the units
TopDigit(bytes) ==
    LET nz == { i \in 1 .. Len(bytes) : bytes[i] # 0 }
    IN  IF nz = {} THEN 0 ELSE (CHOOSE i \in nz : \A j \in nz : j <= i) - 1

Digit(bytes, i) == IF i >= 0 /\ i < Len(bytes) THEN bytes[i + 1] ELSE 0

\* (bytes / Math.pow(k, i)).toFixed(2) in hundredths, ties rounded up
Hundredths(bytes, i) ==
    LET low == 100 * (Digit(bytes, i - 1) * k + Digit(bytes, i - 2))
    IN  100 * Digit(bytes, i) + (2 * low + k * k) \div (2 * k * k)

\* parseFloat of a toFixed(2) string: trailing zeros of the fraction dropped
ParseFloatStr(h) ==
    LET whole == h \div 100
        frac  == h % 100
    IN  IF frac = 0 THEN ToString(whole)
        ELSE IF frac % 10 = 0 THEN ToString(whole) \o "." \o ToString(frac \div 10)
        ELSE IF frac < 10 THEN ToString(whole) \o ".0" \o ToString(frac)
        ELSE ToString(whole) \o "." \o ToString(frac)

\* formatFileSize, lines 196-202
formatFileSize(bytes) ==
    IF TopDigit(bytes) = 0 /\ Digit(bytes, 0) = 0
    THEN "0 Bytes"
    ELSE LET i == TopDigit(bytes)
             unit == IF i + 1 \in DOMAIN sizes THEN sizes[i + 1] ELSE "undefined"
         IN  ParseFloatStr(Hundredths(bytes, i)) \o " " \o unit

\* mutant of NoFiles: only !files is tested, and an empty array is truthy
NoFilesTruthy(files) == FALSE

\* !files || files.length === 0, line 43
NoFiles(files) == Len(files) = 0

\* the object of lines 57-62 built from one multer file
StoredFile(file) ==
    [ originalName |-> file.originalname,
      storedName   |-> file.filename,
      path         |-> file.path,
      size         |-> file.size ]

\* mutant of MapFiles: the record is stored before the last part is in
MapFilesDropLast(files) == [ i \in 1 .. (Len(files) - 1) |-> StoredFile(files[i]) ]

\* files.map(...) of lines 57-62
MapFiles(files) == [ i \in 1 .. Len(files) |-> StoredFile(files[i]) ]

\* the record of lines 56-67
NewRecord(files, body, created, expires) ==
    [ files     |-> MapFiles(files),
      email     |-> body.email,
      message   |-> body.message,
      createdAt |-> created,
      expiresAt |-> expires ]

\* mutant of StoreSet: the record is stored under another id than the one returned
StoreSetOtherKey(store, downloadId, record) ==
    [ i \in (DOMAIN store) \cup {(downloadId % NumIds) + 1} |->
        IF i = (downloadId % NumIds) + 1 THEN record ELSE store[i] ]

\* fileStore.set(downloadId, record), line 56
StoreSet(store, downloadId, record) ==
    [ i \in (DOMAIN store) \cup {downloadId} |->
        IF i = downloadId THEN record ELSE store[i] ]

\* fileStore.delete(downloadId), line 108
StoreDelete(store, downloadId) ==
    [ i \in (DOMAIN store) \ {downloadId} |-> store[i] ]

\* new Date() > fileData.expiresAt, line 107
IsExpired(t, fileData) == t > fileData.expiresAt

\* the href of line 146
FileUrl(downloadId, storedName) == <<"download-file", downloadId, storedName>>

\* one .file-item of lines 145-148
ManifestEntry(downloadId, file) ==
    [ href |-> FileUrl(downloadId, file.storedName),
      text |-> file.originalName,
      size |-> formatFileSize(file.size) ]

\* mutant of Manifest: the entries are listed last upload first
ManifestReversed(downloadId, files) ==
    [ i \in 1 .. Len(files) |-> ManifestEntry(downloadId, files[Len(files) + 1 - i]) ]

\* fileData.files.map(...) of lines 144-149
Manifest(downloadId, files) ==
    [ i \in 1 .. Len(files) |-> ManifestEntry(downloadId, files[i]) ]

\* res.download(file.path, file.originalName), lines 124 and 174
Download(file) == <<[path |-> file.path, filename |-> file.originalName]>>

\* mutant of FindFile: the stored name is searched in every record of the registry
FindFileAnywhere(files, filename) ==
    LET all == UNION { { fileStore[i].files[n] : n \in 1 .. Len(fileStore[i].files) } :
                       i \in DOMAIN fileStore }
        hits == { f \in all : f.storedName = filename }
    IN  IF hits = {} THEN <<>> ELSE <<CHOOSE f \in hits : TRUE>>

\* fileData.files.find(f => f.storedName === filename), line 171
FindFile(files, filename) ==
    LET hits == { i \in 1 .. Len(files) : files[i].storedName = filename }
    IN  IF hits = {} THEN <<>>
        ELSE <<files[CHOOSE i \in hits : \A j \in hits : i <= j]>>

\* a response: the route of the request, its :id (for an upload the downloadId
\* of the JSON, 0 when it has none), the status, the kind of body, the files of
\* the record a lookup resolved, the res.download call, the manifest entries,
\* and the :filename of the request (<<>> on the routes that have none)
Response(route, id, status, kind, files, sent, entries) ==
    [ route |-> route, id |-> id, status |-> status, kind |-> kind,
      files |-> files, sent |-> sent, entries |-> entries, filename |-> <<>> ]

\* the response to GET /download-file/:id/:filename
FileResponse(downloadId, filename, status, kind, files, sent) ==
    [ Response("download-file", downloadId, status, kind, files, sent, <<>>)
        EXCEPT !.filename = filename ]

\* no handler has answered in the step just taken
NoResponse == Response("none", 0, 0, "none", <<>>, <<>>, <<>>)

\* clock advances so far, read off the clock
Ticks == now % RETENTION_MS
Jumps == now \div RETENTION_MS

\* the stored names a GET /download-file request may carry
RequestNames ==
    UNION { { fileStore[i].files[n].storedName : n \in 1 .. Len(fileStore[i].files) } :
            i \in DOMAIN fileStore }
    \cup { reqFiles[n].filename : n \in 1 .. Len(reqFiles) }
    \cup { <<0, 0, <<".", "x">>>> }

\* the ids a GET request may carry: any the generator can return, and one it cannot
RequestIds == Ids \cup {0}

----------------------------------------------------------------------------
(* Initial state: an empty registry, nothing on disk, no request *)

Init ==
    /\ fileStore = <<>>
    /\ disk = {}
    /\ reqFiles = <<>>
    /\ now = 0
    /\ res = NoResponse
    /\ log = <<>>
    /\ expired = {}
    /\ fmtBytes = <<0>>
    /\ fmtText = ""

----------------------------------------------------------------------------
(* The clock *)

\* one millisecond passes
Tick ==
    /\ Ticks < MaxTicks
    /\ now' = now + 1
    /\ res' = NoResponse
    /\ UNCHANGED <<fmtBytes, fmtText, fileStore, disk, reqFiles, log, expired>>

\* seven days pass
Jump ==
    /\ Jumps < MaxJumps
    /\ now' = now + RETENTION_MS
    /\ res' = NoResponse
    /\ UNCHANGED <<fmtBytes, fmtText, fileStore, disk, reqFiles, log, expired>>

----------------------------------------------------------------------------
(* upload.array('files'): multer stores one more part of the request, lines 14-31 *)

MulterFile(part, rnd) ==
    LET filename == uniqueName(now, rnd, part.originalname)
        file == [ originalname |-> part.originalname,
                  filename     |-> filename,
                  path         |-> uploadPath(filename),
                  size         |-> part.size ]
    IN  /\ Len(log) < MaxUploads
        /\ Len(reqFiles) < MaxFiles
        /\ reqFiles' = Append(reqFiles, file)
        /\ disk' = disk \cup {file.path}
        /\ res' = NoResponse
        /\ UNCHANGED <<fmtBytes, fmtText, fileStore, now, log, expired>>

----------------------------------------------------------------------------
(* POST /api/upload, lines 37-85.  The handler reads the clock twice, at     *)
(* lines 65 and 66; drift is the time that passes between the two reads.    *)

ApiUpload(body, downloadId, drift) ==
    IF NoFiles(reqFiles)
    THEN /\ res' = Response("upload", 0, 400, "error", <<>>, <<>>, <<>>)
         /\ UNCHANGED <<fmtBytes, fmtText, fileStore, disk, reqFiles, now, log, expired>>
    ELSE LET createdAt == now
             expiresAt == (now + drift) + RETENTION_MS
         IN  /\ Len(log) < MaxUploads
             /\ Ticks + drift <= MaxTicks
             /\ fileStore' = StoreSet(fileStore, downloadId,
                                NewRecord(reqFiles, body, createdAt, expiresAt))
             /\ now' = now + drift
             /\ res' = Response("upload", downloadId, 200, "success",
                                <<>>, <<>>, <<>>)
             /\ log' = Append(log, [ id |-> downloadId, files |-> reqFiles,
                                     createdAt |-> createdAt, expiresAt |-> expiresAt ])
             /\ reqFiles' = <<>>
             /\ UNCHANGED <<fmtBytes, fmtText, disk, expired>>

----------------------------------------------------------------------------
(* GET /download/:id, lines 88-161 *)

DownloadGet(downloadId) ==
    IF downloadId \notin DOMAIN fileStore
    THEN /\ res' = Response("download", downloadId, 404, "notfound", <<>>, <<>>, <<>>)
         /\ UNCHANGED <<fmtBytes, fmtText, fileStore, disk, reqFiles, now, log, expired>>
    ELSE LET fileData == fileStore[downloadId]
         IN  IF IsExpired(now, fileData)
             THEN /\ fileStore' = StoreDelete(fileStore, downloadId)
                  /\ res' = Response("download", downloadId, 410, "expired",
                                     <<>>, <<>>, <<>>)
                  /\ expired' = expired \cup {downloadId}
                  /\ UNCHANGED <<fmtBytes, fmtText, disk, reqFiles, now, log>>
             ELSE /\ res' = IF Len(fileData.files) = 1
                             THEN Response("download", downloadId, 200, "file",
                                           fileData.files,
                                           Download(fileData.files[1]), <<>>)
                             ELSE Response("download", downloadId, 200, "manifest",
                                           fileData.files, <<>>,
                                           Manifest(downloadId, fileData.files))
                  /\ UNCHANGED <<fmtBytes, fmtText, fileStore, disk, reqFiles, now, log, expired>>

----------------------------------------------------------------------------
(* GET /download-file/:id/:filename, lines 164-175 *)

\* mutant of DownloadFile: a served download renews the record's expiry
DownloadFileSliding(downloadId, filename) ==
    IF downloadId \notin DOMAIN fileStore
    THEN /\ res' = FileResponse(downloadId, filename, 404, "notfound",
                              <<>>, <<>>)
         /\ UNCHANGED <<fmtBytes, fmtText, fileStore, disk, reqFiles, now, log, expired>>
    ELSE LET fileData == fileStore[downloadId]
             file == FindFile(fileData.files, filename)
         IN  IF file = <<>>
             THEN /\ res' = FileResponse(downloadId, filename, 404, "notfound",
                              fileData.files, <<>>)
                  /\ UNCHANGED <<fmtBytes, fmtText, fileStore, disk, reqFiles, now, log, expired>>
             ELSE /\ res' = FileResponse(downloadId, filename, 200, "file",
                              fileData.files, Download(file[1]))
                  /\ fileStore' = [fileStore EXCEPT
                                     ![downloadId].expiresAt = now + RETENTION_MS]
                  /\ UNCHANGED <<fmtBytes, fmtText, disk, reqFiles, now, log, expired>>

DownloadFile(downloadId, filename) ==
    IF downloadId \notin DOMAIN fileStore
    THEN /\ res' = FileResponse(downloadId, filename, 404, "notfound",
                              <<>>, <<>>)
         /\ UNCHANGED <<fmtBytes, fmtText, fileStore, disk, reqFiles, now, log, expired>>
    ELSE LET fileData == fileStore[downloadId]
             file == FindFile(fileData.files, filename)
         IN  /\ res' = IF file = <<>>
                        THEN FileResponse(downloadId, filename, 404, "notfound",
                              fileData.files, <<>>)
                        ELSE FileResponse(downloadId, filename, 200, "file",
                              fileData.files, Download(file[1]))
             /\ UNCHANGED <<fmtBytes, fmtText, fileStore, disk, reqFiles, now, log, expired>>

----------------------------------------------------------------------------
(* The specification *)

Next ==
    \/ Tick
    \/ Jump
    \/ \E part \in Parts, rnd \in Rnds : MulterFile(part, rnd)
    \/ \E body \in Bodies, downloadId \in generateDownloadId, drift \in {0, 1} :
          ApiUpload(body, downloadId, drift)
    \/ \E downloadId \in RequestIds : DownloadGet(downloadId)
    \/ \E downloadId \in RequestIds, filename \in RequestNames :
          DownloadFile(downloadId, filename)

Spec == Init /\ [][Next]_vars

\* the clock never stops: time passes whatever requests arrive
FairSpec == Spec /\ WF_vars(Tick) /\ WF_vars(Jump)

----------------------------------------------------------------------------
(* formatFileSize on its own: any byte count of Sizes is formatted once *)

FmtInit ==
    /\ fileStore = <<>>
    /\ disk = {}
    /\ reqFiles = <<>>
    /\ now = 0
    /\ res = NoResponse
    /\ log = <<>>
    /\ expired = {}
    /\ fmtBytes \in Sizes
    /\ fmtText = ""

\* the call formatFileSize(file.size) of line 147
Format ==
    /\ fmtText = ""
    /\ fmtText' = formatFileSize(fmtBytes)
    /\ UNCHANGED <<fmtBytes, fileStore, disk, reqFiles, now, res, log, expired>>

FmtNext == Format

FmtSpec == FmtInit /\ [][FmtNext]_vars

----------------------------------------------------------------------------
(* Vocabulary of the claims *)

\* the ids returned by an upload so far
Issued == { log[n].id : n \in 1 .. Len(log) }

\* the step just taken answered a download lookup
IsLookup(r) == r.route \in {"download", "download-file"}

\* a resolved file list is the uploaded batch, position by position
SameBatch(files, batch) ==
    /\ Len(files) = Len(batch)
    /\ \A i \in 1 .. Len(batch) :
          /\ files[i].originalName = batch[i].originalname
          /\ files[i].storedName = batch[i].filename
          /\ files[i].size = batch[i].size

\* the paths of the files of a record
RecordPaths(fileData) == { fileData.files[n].path : n \in 1 .. Len(fileData.files) }

----------------------------------------------------------------------------
(* C1: an upload followed, before its expiry, by GET /download/:id with the *)
(* returned id resolves a record whose files are the uploaded batch: same   *)
(* length, order, originalName, storedName and size.                        *)
C1_UploadThenDownloadYieldsBatch ==
    \A n \in 1 .. Len(log) :
        (res.route = "download" /\ res.id = log[n].id /\ now <= log[n].expiresAt)
            => (res.status = 200 /\ SameBatch(res.files, log[n].files))

(* C2: for a record created at T, the first GET /download/:id strictly      *)
(* after T + 7 days answers 410 and removes the record, and every later     *)
(* GET /download/:id or GET /download-file/:id/:storedName on that id       *)
(* answers 404.                                                             *)
C2_ExpiredThenNotFound ==
    [][ /\ \A n \in 1 .. Len(log) :
              ( /\ res'.route = "download"
                /\ res'.id = log[n].id
                /\ res'.id \notin expired
                /\ now' > log[n].createdAt + RETENTION_MS )
                  => (res'.status = 410 /\ res'.id \notin DOMAIN fileStore')
        /\ (IsLookup(res') /\ res'.id \in expired) => res'.status = 404
      ]_vars

(* C3: GET /download-file/:id/:storedName never hands back a file of a      *)
(* record whose expiresAt is earlier than the current time.                 *)
C3_FileDownloadChecksExpiry ==
    (res.route = "download-file" /\ res.sent # <<>>)
        => \A id \in DOMAIN fileStore : id = res.id => ~(fileStore[id].expiresAt < now)

(* C4: whenever a record is removed from the registry, the stored content   *)
(* of every one of its files is deleted from disk.                          *)
C4_RemovalDeletesContent ==
    [][ \A id \in DOMAIN fileStore :
            id \notin DOMAIN fileStore' => RecordPaths(fileStore[id]) \cap disk' = {}
      ]_vars

(* C5: an upload never overwrites a live record: every unexpired record     *)
(* present before the upload is still present, unchanged, under its own id  *)
(* after it, and the id the upload returns was not a live id.               *)
C5_UploadNeverOverwrites ==
    [][ \A id \in DOMAIN fileStore :
            (res'.route = "upload" /\ res'.status = 200 /\ ~IsExpired(now', fileStore[id]))
                => /\ id \in DOMAIN fileStore'
                   /\ fileStore'[id] = fileStore[id]
                   /\ res'.id # id
      ]_vars

(* C6: every record whose expiresAt has passed is eventually removed from   *)
(* the registry, with its stored files, even if no download request for     *)
(* its id arrives after expiry.                                             *)
C6_ExpiredEventuallySwept ==
    \A id \in Ids :
        (id \in DOMAIN fileStore /\ fileStore[id].expiresAt < now)
            ~> (id \notin DOMAIN fileStore)

(* C7: for a live record with n files GET /download/:id answers 200 with a  *)
(* direct download of the single file (its path and original name) when     *)
(* n = 1, and with a manifest of exactly n entries in upload order when     *)
(* n > 1, the k-th URL embedding the id and the k-th storedName; one file   *)
(* never yields a manifest and several files never a direct download.       *)
C7_SingleFileOrManifest ==
    [][ \A id \in DOMAIN fileStore :
            (res'.route = "download" /\ res'.id = id /\ ~(now' > fileStore[id].expiresAt))
                => LET files == fileStore[id].files
                       n == Len(files)
                   IN  /\ res'.status = 200
                       /\ n = 1 =>
                             /\ res'.kind = "file"
                             /\ res'.entries = <<>>
                             /\ Len(res'.sent) = 1
                             /\ res'.sent[1].path = files[1].path
                             /\ res'.sent[1].filename = files[1].originalName
                       /\ n # 1 =>
                             /\ res'.kind = "manifest"
                             /\ res'.sent = <<>>
                             /\ Len(res'.entries) = n
                             /\ \A i \in 1 .. n :
                                   /\ res'.entries[i].href[2] = id
                                   /\ res'.entries[i].href[3] = files[i].storedName
                                   /\ res'.entries[i].text = files[i].originalName
      ]_vars

\* a manifest of two different files, in upload order, has been served
C7_Witness ==
    /\ res.route = "download"
    /\ res.status = 200
    /\ res.kind = "manifest"
    /\ Len(res.entries) = 2
    /\ res.entries[1].href # res.entries[2].href

(* C8: an upload request with no files is answered 400 with success false,  *)
(* issues no id and leaves the registry unchanged; every record of the      *)
(* registry has a non-empty files sequence.                                 *)
C8_EmptyUploadRejected ==
    /\ [][ (res'.route = "upload" /\ Len(reqFiles) = 0)
              => /\ res'.status = 400
                 /\ res'.kind = "error"
                 /\ res'.id \notin generateDownloadId
                 /\ fileStore' = fileStore
                 /\ log' = log
         ]_vars
    /\ [](\A id \in DOMAIN fileStore : Len(fileStore[id].files) >= 1)

\* an empty upload has been rejected while the registry held a record
C8_Witness ==
    /\ res.route = "upload"
    /\ res.status = 400
    /\ DOMAIN fileStore # {}

(* C9: a download lookup with an id no upload has returned answers 404, on  *)
(* GET /download/:id and on GET /download-file/:id/:storedName, and leaves  *)
(* the registry unchanged.                                                  *)
C9_UnknownIdNotFound ==
    [][ (IsLookup(res') /\ res'.id \notin Issued)
            => (res'.status = 404 /\ fileStore' = fileStore)
      ]_vars

\* an id the generator can return, but no upload has, was looked up while the
\* registry held a record
C9_Witness ==
    /\ res.route = "download-file"
    /\ res.id \in Ids \ Issued
    /\ res.status = 404
    /\ DOMAIN fileStore # {}

(* C10: a successful download lookup leaves the whole registry unchanged,   *)
(* in particular the files, createdAt and expiresAt of the resolved record: *)
(* no download extends an expiry.                                           *)
C10_LookupReadOnly ==
    [][ (IsLookup(res') /\ res'.status = 200)
            => /\ fileStore' = fileStore
               /\ res'.id \in DOMAIN fileStore'
               /\ fileStore'[res'.id].expiresAt = fileStore[res'.id].expiresAt
      ]_vars

\* a file was downloaded from a record some time after its creation
C10_Witness ==
    /\ IsLookup(res)
    /\ res.status = 200
    /\ res.id \in DOMAIN fileStore
    /\ now > fileStore[res.id].createdAt + 1

----------------------------------------------------------------------------
\* hundredths of bytes / 1024^j, ties rounded up, for a count of at most j + 3 digits
HundredthsAt(b, j) ==
    LET low == 100 * (Digit(b, j - 1) * k + Digit(b, j - 2))
    IN  100 * (Digit(b, j) + k * Digit(b, j + 1) + k * k * Digit(b, j + 2))
          + (2 * low + k * k) \div (2 * k * k)

\* the formatting the claim describes: the unit index clamped to the table
ClampedFormat(b) ==
    IF \A n \in 1 .. Len(b) : b[n] = 0
    THEN "0 Bytes"
    ELSE LET i == TopDigit(b)
             j == IF i > Len(sizes) - 1 THEN Len(sizes) - 1 ELSE i
         IN  ParseFloatStr(HundredthsAt(b, j)) \o " " \o sizes[j + 1]

(* C11: formatFileSize takes its unit from the table {Bytes, KB, MB, GB}    *)
(* for every byte count: the unit index is floor(log_1024(bytes)) clamped   *)
(* to 3, so a count >= 1024^4 is shown in GB, and 0 gives "0 Bytes".        *)
C11_UnitClampedToTable ==
    fmtText # "" => fmtText = ClampedFormat(fmtBytes)

(* C12: a record is never removed or replaced before its expiry: only a     *)
(* GET /download/:id at a time strictly greater than its expiresAt takes an *)
(* issued id's record out of the registry, and at every time up to and      *)
(* including expiresAt a lookup on an issued id resolves the record that    *)
(* was created under it.                                                    *)
C12_LiveRecordStays ==
    [][ /\ \A id \in DOMAIN fileStore :
              (id \notin DOMAIN fileStore' \/ fileStore'[id] # fileStore[id])
                  => /\ res'.route = "download"
                     /\ res'.id = id
                     /\ now' > fileStore[id].expiresAt
                     /\ id \notin DOMAIN fileStore'
        /\ \A n \in 1 .. Len(log) :
              (res'.route = "download" /\ res'.id = log[n].id /\ now' <= log[n].expiresAt)
                  => (res'.status = 200 /\ SameBatch(res'.files, log[n].files))
      ]_vars

(* C13: record creation is atomic: under every interleaving of the upload   *)
(* steps with download lookups, the registry holds under an id, and a       *)
(* lookup resolves, only a complete record: all files of one uploaded       *)
(* batch, with its createdAt and expiresAt, never a part of a batch.        *)
C13_RecordCreatedWhole ==
    /\ \A id \in DOMAIN fileStore :
          \E n \in 1 .. Len(log) :
              /\ log[n].id = id
              /\ SameBatch(fileStore[id].files, log[n].files)
              /\ fileStore[id].createdAt = log[n].createdAt
              /\ fileStore[id].expiresAt = log[n].expiresAt
    /\ (IsLookup(res) /\ res.id \in DOMAIN fileStore)
          => \E n \in 1 .. Len(log) :
                 log[n].id = res.id /\ SameBatch(res.files, log[n].files)

\* a two-file record was resolved while multer was storing the parts of another upload
C13_Witness ==
    /\ IsLookup(res)
    /\ res.status = 200
    /\ Len(res.files) = 2
    /\ Len(reqFiles) = 1

(* C14: every record of the registry has expiresAt = createdAt + 7 days     *)
(* exactly, whenever the upload handler runs.                               *)
C14_ExpiresSevenDaysAfterCreation ==
    \A id \in DOMAIN fileStore :
        fileStore[id].expiresAt = fileStore[id].createdAt + RETENTION_MS

(* C15: within every record no two files share a storedName.                *)
C15_StoredNamesUniqueInBatch ==
    \A id \in DOMAIN fileStore :
        \A i, j \in 1 .. Len(fileStore[id].files) :
            i # j => fileStore[id].files[i].storedName # fileStore[id].files[j].storedName

(* C16: GET /download-file/:id/:storedName returns a file only if that      *)
(* storedName belongs to the record stored under :id, the file returned     *)
(* being one of that record's files, and answers 404 when the id is unknown *)
(* or the storedName is not in that record, even if another record has it.  *)
C16_FileDownloadScopedToRecord ==
    [][ res'.route = "download-file" =>
          LET id == res'.id
              own == IF id \in DOMAIN fileStore
                     THEN { n \in 1 .. Len(fileStore[id].files) :
                              fileStore[id].files[n].storedName = res'.filename }
                     ELSE {}
          IN  /\ own = {} => (res'.status = 404 /\ res'.sent = <<>>)
              /\ own # {} =>
                    /\ res'.status = 200
                    /\ \E n \in own :
                          res'.sent = << [ path |-> fileStore[id].files[n].path,
                                           filename |-> fileStore[id].files[n].originalName ] >>
      ]_vars

\* a stored name held only by another record was refused under a live id
C16_Witness ==
    /\ res.route = "download-file"
    /\ res.status = 404
    /\ res.id \in DOMAIN fileStore
    /\ \E other \in DOMAIN fileStore \ {res.id} :
          \E n \in 1 .. Len(fileStore[other].files) :
              fileStore[other].files[n].storedName = res.filename

====
